---- MODULE Spec2Model ----
(***************************************************************************)
(* Conversational agent with rolling chat history: the chat handler of     *)
(* agent.py, its console loop, the HTTP endpoint of api.py and the browser *)
(* page of app.py.                                                         *)
(*                                                                         *)
(* A text is a sequence of string fragments.  Typed input is written one   *)
(* character per fragment (so strip() and lower() work on characters); a   *)
(* string literal of the program is one fragment.  The empty text is <<>>. *)
(***************************************************************************)
EXTENDS Integers, Sequences, FiniteSets, TLC

\* ------------------------------------------------------------------ bounds
\* Chat calls / console lines / page runs / HTTP requests of a short run.
MaxSteps == 3
\* Console lines / HTTP requests of a long run (enough to pass the history cap).
MaxLongSteps == 12
\* Concurrent HTTP requests in flight.
NumSlots == 2

\* ------------------------------------------------------- program constants
\* agent.py:236  "if len(chat_history) > 20"
MaxHistory == 20

\* agent.py:231  the sentinel the append guard compares with
Sentinel == <<"No response generated">>

MsgNoResponse == <<"No response was generated. Please try again.">>
MsgRephrase == <<"I didn't get a proper response. Could you rephrase your question?">>
MsgTrouble == <<"I'm having trouble understanding. Could you rephrase your question?">>
MsgNotSure == <<"I'm not sure how to respond to that. Could you rephrase?">>
MsgHandlerError == <<"I'm sorry, I encountered an error processing your request. Please try again.">>

\* agent.py:228  f"I encountered an error: {str(e)}. Could you please rephrase your question?"
MsgInvokeError(e) ==
    <<"I encountered an error: ">> \o e \o <<". Could you please rephrase your question?">>

\* ------------------------------------------------------------------- state
VARIABLES
    mode,           \* which front-end this process runs: "console", "api", "ui"
    chat_history,   \* agent.chat_history: sequence of <<role, content>>
    hist_src,       \* history variable: who recorded chat_history[i]
    appended_log,   \* history variable: every turn appended since the last clear, with its source
    last_call,      \* history variable: arguments of the latest agent_executor.invoke
    invoke_count,   \* history variable: number of agent_executor.invoke calls
    chat_calls,     \* history variable: number of chat() calls that returned
    last_reply,     \* history variable: what the latest chat() call returned
    last_op,        \* history variable: the operation performed last and its inputs
    steps,          \* number of inputs consumed (bounds the run)
    console_pc,     \* "running" or "terminated"
    console_out,    \* what the console loop printed last
    session_storage,\* api.session_storage: session id -> list object
    lists,          \* the list objects of session_storage (heap), by object id
    reqs,           \* the HTTP requests in flight, by slot
    chat_lock,      \* api.chat_lock: 0 when free, else the slot holding it
    uuid_n,         \* number of generated session ids
    req_log,        \* history variable: the session id of each request, in the order of lock entry
    answered,       \* history variable: the request answered last
    messages,       \* app.py st.session_state.messages
    agent_ready,    \* app.py st.session_state.agent_ready
    last_error      \* app.py st.session_state.last_error is set

agentVars == <<chat_history, hist_src, appended_log, last_call, invoke_count,
               chat_calls, last_reply>>
consoleVars == <<console_pc, console_out>>
apiVars == <<session_storage, lists, reqs, chat_lock, uuid_n, req_log, answered>>
uiVars == <<messages, agent_ready, last_error>>
vars == <<mode, agentVars, last_op, steps, consoleVars, apiVars, uiVars>>

\* ------------------------------------------------------------ text helpers
Whitespace == {" ", "\t", "\n"}

RECURSIVE LStrip(_)
LStrip(s) == IF s # <<>> /\ Head(s) \in Whitespace THEN LStrip(Tail(s)) ELSE s

RECURSIVE RStrip(_)
RStrip(s) ==
    IF s # <<>> /\ s[Len(s)] \in Whitespace THEN RStrip(SubSeq(s, 1, Len(s) - 1)) ELSE s

\* A strip() that removes nothing.
Strip_Noop(s) == s

\* str.strip()
Strip(s) == RStrip(LStrip(s))

UpperChars == <<"A","B","C","D","E","F","G","H","I","J","K","L","M",
                "N","O","P","Q","R","S","T","U","V","W","X","Y","Z">>
LowerChars == <<"a","b","c","d","e","f","g","h","i","j","k","l","m",
                "n","o","p","q","r","s","t","u","v","w","x","y","z">>

UpperSet == {UpperChars[i] : i \in 1..Len(UpperChars)}

LowerTable ==
    [c \in UpperSet |-> LowerChars[CHOOSE i \in 1..Len(UpperChars) : UpperChars[i] = c]]

LowerChar(c) == IF c \in UpperSet THEN LowerTable[c] ELSE c

\* A lower() that leaves the text as typed.
Lower_Noop(s) == s

\* str.lower()
Lower(s) == [i \in 1..Len(s) |-> LowerChar(s[i])]

\* ------------------------------------------- results of the external call
\* A Python value as far as the handler looks at it: its type, its truth
\* value and what str() gives for it.
StrVal(s) == [t |-> "str", truthy |-> s # <<>>, s |-> s]
NoneVal == [t |-> "none", truthy |-> FALSE, s |-> <<"None">>]
OtherVal(truthy, s) == [t |-> "other", truthy |-> truthy, s |-> s]

\* What agent_executor.invoke(input_data) can do.
RespNone == [kind |-> "none", has_output |-> FALSE, output |-> NoneVal, str |-> <<"None">>, msg |-> <<>>]
RespDict(has, v) == [kind |-> "dict", has_output |-> has, output |-> v, str |-> <<"{...}">>, msg |-> <<>>]
RespObject(v, s) == [kind |-> "object", has_output |-> TRUE, output |-> v, str |-> s, msg |-> <<>>]
RespPlain(s) == [kind |-> "object", has_output |-> FALSE, output |-> NoneVal, str |-> s, msg |-> <<>>]
RespRaise(e) == [kind |-> "raise", has_output |-> FALSE, output |-> NoneVal, str |-> <<>>, msg |-> e]
\* An object without a usable output attribute whose str() raises e (caught at agent.py:227).
RespBadStr(e) == [kind |-> "badstr", has_output |-> FALSE, output |-> NoneVal, str |-> <<>>, msg |-> e]

\* ------------------------------------------------------------ chat handler
\* A ladder that takes the mapping's field as it is, without the "rephrase" text.
PickOutput_NoRephrase(resp) ==
    IF resp.kind = "none" THEN StrVal(MsgNoResponse)
    ELSE IF resp.kind = "dict" THEN (IF resp.has_output THEN resp.output ELSE StrVal(<<>>))
    ELSE IF resp.has_output /\ resp.output.t # "none" THEN StrVal(resp.output.s)
    ELSE StrVal(resp.str)

\* agent.py:212-221  the output picked from the response, before the final check
PickOutput(resp) ==
    IF resp.kind = "none" THEN StrVal(MsgNoResponse)
    ELSE IF resp.kind = "dict" THEN
        LET got == IF resp.has_output THEN resp.output ELSE StrVal(<<>>)
        IN IF ~got.truthy THEN StrVal(MsgRephrase) ELSE got
    ELSE IF resp.has_output /\ resp.output.t # "none" THEN StrVal(resp.output.s)
    ELSE StrVal(resp.str)

\* agent.py:208-228  the text produced from what the external call did
ExtractOutput(resp) ==
    IF resp.kind \in {"raise", "badstr"} THEN MsgInvokeError(resp.msg)
    ELSE LET output == PickOutput(resp)
         IN IF ~output.truthy \/ output.t # "str" THEN MsgTrouble ELSE output.s

\* An append guard that lets everything through.
ShouldAppend_Always(output) == TRUE

\* An append guard that records nothing.
ShouldAppend_Never(output) == FALSE

\* agent.py:231  "if output and output != 'No response generated'"
ShouldAppend(output) == output # <<>> /\ output # Sentinel

\* A truncation that keeps the oldest turns.
KeepLast_Oldest(h) == IF Len(h) > MaxHistory THEN SubSeq(h, 1, MaxHistory) ELSE h

\* A truncation that keeps one turn less.
KeepLast_OneLess(h) == IF Len(h) > MaxHistory THEN SubSeq(h, Len(h) - MaxHistory + 2, Len(h)) ELSE h

\* agent.py:236-237  "chat_history = chat_history[-20:]"
KeepLast(h) == IF Len(h) > MaxHistory THEN SubSeq(h, Len(h) - MaxHistory + 1, Len(h)) ELSE h

\* agent.py:189-195  which stored turns become messages
Formattable(turn) ==
    \/ turn[1] = "human"
    \/ turn[1] = "assistant" /\ turn[2] # <<>>

\* agent.py:187-195  formatted_history
FormatHistory(h) ==
    LET kept == SelectSeq(h, Formattable)
    IN [i \in 1..Len(kept) |->
          [type |-> IF kept[i][1] = "human" THEN "human" ELSE "ai", content |-> kept[i][2]]]

\* The indices of h that FormatHistory keeps, in order.
RECURSIVE KeptIndices(_, _)
KeptIndices(h, i) ==
    IF i > Len(h) THEN <<>>
    ELSE (IF Formattable(h[i]) THEN <<i>> ELSE <<>>) \o KeptIndices(h, i + 1)

\* agent.py:239  the value returned on the normal path
ReturnValue(output) == IF output # <<>> THEN output ELSE MsgNotSure

NoCall == [input |-> <<>>, chat_history |-> <<>>, src |-> <<>>, key |-> "", req |-> 0,
           did |-> RespNone]

\* agent.py:168-244  chat(user_input, agent_executor): the external call does
\* `resp`; `fault` is an exception raised before the call (caught at 241).
\* key and req name the caller for the history variables.
chat(user_input, resp, fault, key, req) ==
    IF fault
    THEN /\ chat_calls' = chat_calls + 1
         /\ last_reply' = MsgHandlerError
         /\ UNCHANGED <<chat_history, hist_src, appended_log, last_call, invoke_count>>
    ELSE LET output == ExtractOutput(resp)
             kept == KeptIndices(chat_history, 1)
             grown == IF ShouldAppend(output)
                      THEN chat_history \o << <<"human", user_input>>, <<"assistant", output>> >>
                      ELSE chat_history
             grown_src == IF ShouldAppend(output)
                          THEN hist_src \o << [key |-> key, req |-> req], [key |-> key, req |-> req] >>
                          ELSE hist_src
         IN /\ last_call' = [input |-> user_input,
                             chat_history |-> FormatHistory(chat_history),
                             src |-> [i \in 1..Len(kept) |-> hist_src[kept[i]]],
                             key |-> key, req |-> req, did |-> resp]
            /\ invoke_count' = invoke_count + 1
            /\ chat_calls' = chat_calls + 1
            /\ last_reply' = ReturnValue(output)
            /\ chat_history' = KeepLast(grown)
            /\ hist_src' = KeepLast(grown_src)
            /\ appended_log' = IF ShouldAppend(output)
                               THEN appended_log \o
                                    << [turn |-> <<"human", user_input>>, key |-> key, req |-> req],
                                       [turn |-> <<"assistant", output>>, key |-> key, req |-> req] >>
                               ELSE appended_log

\* agent.py:168-244  the value chat() returns
ChatResult(resp, fault) ==
    IF fault THEN MsgHandlerError ELSE ReturnValue(ExtractOutput(resp))

\* ---------------------------------------------------- inputs of a short run
\* Lines typed at the console prompt.
ConsoleLines ==
    { <<>>, <<" ", "\t">>,
      <<"h", "i">>, <<" ", "Q", "u", "i", "t", "s", "\n">>,
      <<"q">>, <<"Q", "u", "i", "t">>, <<"e", "x", "i", "t", " ">>,
      <<"H", "i", "s", "t", "o", "r", "y">>,
      <<"c", "l", "e", "a", "r">>, <<" ", "C", "L", "E", "A", "R">> }

\* What the external call does at the console.
ConsoleResponses ==
    { RespDict(TRUE, StrVal(<<"ok">>)),
      RespDict(TRUE, StrVal(Sentinel)),
      RespNone,
      RespRaise(<<"boom">>) }

\* What the external call can do, one of each shape the handler tells apart.
Responses ==
    { RespNone,
      RespDict(TRUE, StrVal(<<"ok">>)),
      RespDict(TRUE, StrVal(Sentinel)),
      RespDict(TRUE, StrVal(<<>>)),
      RespDict(TRUE, NoneVal),
      RespDict(FALSE, NoneVal),
      RespDict(TRUE, OtherVal(TRUE, <<"5">>)),
      RespObject(StrVal(<<"ok">>), <<"obj">>),
      RespObject(OtherVal(FALSE, <<>>), <<"obj">>),
      RespObject(NoneVal, <<"obj">>),
      RespPlain(<<"ok">>),
      RespPlain(<<>>),
      RespRaise(<<"boom">>),
      RespRaise(<<>>) }

\* ------------------------------------------------------------ console loop
QuitWords == { <<"q", "u", "i", "t">>, <<"e", "x", "i", "t">>, <<"q">> }
HistoryWord == <<"h", "i", "s", "t", "o", "r", "y">>
ClearWord == <<"c", "l", "e", "a", "r">>

\* agent.py:295-318  what the loop does with a stripped line
Dispatch(user_input) ==
    IF user_input = <<>> THEN "blank"
    ELSE IF Lower(user_input) \in QuitWords THEN "quit"
    ELSE IF Lower(user_input) = HistoryWord THEN "history"
    ELSE IF Lower(user_input) = ClearWord THEN "clear"
    ELSE "chat"

NoOp == [op |-> "none", raw |-> <<>>, text |-> <<>>, resp |-> RespNone,
         fault |-> "none", reply |-> <<>>]

Op(op, raw, text, resp, fault, reply) ==
    [op |-> op, raw |-> raw, text |-> text, resp |-> resp, fault |-> fault, reply |-> reply]

\* agent.py:289-293  end of input (or an interrupt) at the prompt
ConsoleEOF ==
    /\ mode = "console" /\ console_pc = "running"
    /\ console_pc' = "terminated"
    /\ console_out' = "goodbye"
    /\ last_op' = Op("eof", <<>>, <<>>, RespNone, "none", <<>>)
    /\ UNCHANGED <<mode, agentVars, steps, apiVars, uiVars>>

\* agent.py:288-324  one turn of the loop on the line `raw`; when the line is
\* a chat message the external call does `resp`, `fault` is "before" for an
\* exception raised in chat() before the call and "interrupt" for a
\* KeyboardInterrupt while the external call blocks (caught at 321).
ConsoleStep(raw, resp, fault, bound) ==
    /\ mode = "console" /\ console_pc = "running"
    /\ steps < bound
    /\ steps' = steps + 1
    /\ LET user_input == Strip(raw)
           what == Dispatch(user_input)
       IN \/ /\ what = "blank"
             /\ last_op' = Op("blank", raw, user_input, RespNone, "none", <<>>)
             /\ UNCHANGED <<agentVars, consoleVars>>
          \/ /\ what = "quit"
             /\ console_pc' = "terminated"
             /\ console_out' = "goodbye"
             /\ last_op' = Op("quit", raw, user_input, RespNone, "none", <<>>)
             /\ UNCHANGED agentVars
          \/ /\ what = "history"
             /\ console_out' = "history"
             /\ last_op' = Op("history", raw, user_input, RespNone, "none", <<>>)
             /\ UNCHANGED <<agentVars, console_pc>>
          \/ /\ what = "clear"
             /\ chat_history' = <<>>
             /\ hist_src' = <<>>
             /\ appended_log' = <<>>
             /\ console_out' = "cleared"
             /\ last_op' = Op("clear", raw, user_input, RespNone, "none", <<>>)
             /\ UNCHANGED <<last_call, invoke_count, chat_calls, last_reply, console_pc>>
          \/ /\ what = "chat"
             /\ IF fault = "interrupt"
                THEN /\ last_call' = [input |-> user_input,
                                      chat_history |-> FormatHistory(chat_history),
                                      src |-> LET kept == KeptIndices(chat_history, 1)
                                              IN [i \in 1..Len(kept) |-> hist_src[kept[i]]],
                                      key |-> "console", req |-> steps + 1, did |-> resp]
                     /\ invoke_count' = invoke_count + 1
                     /\ console_out' = "interrupted"
                     /\ last_op' = Op("chat", raw, user_input, resp, fault, <<>>)
                     /\ UNCHANGED <<chat_history, hist_src, appended_log, chat_calls,
                                    last_reply, console_pc>>
                ELSE /\ chat(user_input, resp, fault = "before", "console", steps + 1)
                     /\ console_out' = "agent"
                     /\ last_op' = Op("chat", raw, user_input, resp, fault,
                                      ChatResult(resp, fault = "before"))
                     /\ UNCHANGED console_pc
    /\ UNCHANGED <<mode, apiVars, uiVars>>

ConsoleLine ==
    /\ mode = "console" /\ console_pc = "running" /\ steps < MaxSteps
    /\ \E raw \in ConsoleLines, resp \in ConsoleResponses, fault \in {"none", "before", "interrupt"} :
           /\ (Dispatch(Strip(raw)) # "chat" \/ fault # "none" => resp = RespNone)
           /\ (Dispatch(Strip(raw)) # "chat" => fault = "none")
           /\ ConsoleStep(raw, resp, fault, MaxSteps)

\* ----------------------------------------------------------- HTTP endpoint
Slots == 1..NumSlots

\* Session ids a client sends of its own.
ClientKeys == {"k1"}

\* uuid.uuid4() as a string: the n-th generated id (ids never repeat).
Uuid(n) == "uuid-" \o ToString(n)

\* Messages of the request body.
ApiMessages == { <<"h", "i">> }

ApiResponses ==
    { RespDict(TRUE, StrVal(<<"ok">>)),
      RespRaise(<<"boom">>) }

IdleReq == [pc |-> "idle", message |-> <<>>, session_id |-> "", sid |-> "", session |-> 0,
            status |-> 0, response |-> <<>>, resp |-> RespNone, fault |-> "none", no |-> 0]

\* agent.py:153-160  the executor is built without a memory, and nothing in
\* the repository writes to one: the messages api.py:80-82 reads are none.
MemoryMessages == <<>>

\* A lookup that always makes a fresh list.
get_or_create_session_Fresh(storage, heap, session_id) ==
    [session_storage |-> [k \in DOMAIN storage \cup {session_id} |->
                             IF k = session_id THEN Len(heap) + 1 ELSE storage[k]],
     lists |-> Append(heap, <<>>),
     session |-> Len(heap) + 1]

\* api.py:50-53  get_or_create_session: the store, the heap and the list returned
get_or_create_session(storage, heap, session_id) ==
    IF session_id \notin DOMAIN storage
    THEN [session_storage |-> storage @@ (session_id :> Len(heap) + 1),
          lists |-> Append(heap, <<>>),
          session |-> Len(heap) + 1]
    ELSE [session_storage |-> storage, lists |-> heap, session |-> storage[session_id]]

\* api.py:79-86  updated_history: the memory's messages, else the session's tuples
UpdatedHistory(session) ==
    IF MemoryMessages # <<>>
    THEN [i \in 1..Len(MemoryMessages) |->
            [cls |-> "message", type |-> MemoryMessages[i].type, content |-> MemoryMessages[i].content]]
    ELSE [i \in 1..Len(session) |->
            [cls |-> "tuple", type |-> session[i][1], content |-> session[i][2]]]

\* api.py:92  hasattr(msg, 'content'): a message object has it, a tuple has not
HasContent(msg) == msg.cls = "message"

\* api.py:90-94  serialized_history
Serialize(updated) ==
    LET kept == SelectSeq(updated, HasContent)
    IN [i \in 1..Len(kept) |->
          <<IF kept[i].type = "ai" THEN "assistant" ELSE "user", kept[i].content>>]

\* An inner handler that lets the failure escape.
InnerFailure_Escapes(sid) == [status |-> 500, response |-> <<"error detail">>]

\* api.py:104-114  the answer when the inner block raised
InnerFailure(sid) == [status |-> 200, response |-> MsgHandlerError]

\* api.py:57-63  a request arrives and its session id is resolved; `fails` is
\* an exception raised while doing so (caught at 115: status 500).
ApiReceive(r, message, session_id, fails, bound) ==
    /\ mode = "api"
    /\ reqs[r].pc = "idle"
    /\ steps < bound
    /\ steps' = steps + 1
    /\ IF fails
       THEN /\ answered' = [IdleReq EXCEPT !.pc = "done", !.message = message,
                                            !.session_id = session_id, !.status = 500,
                                            !.response = <<"error detail">>, !.fault = "resolve"]
            /\ UNCHANGED <<reqs, uuid_n>>
       ELSE /\ reqs' = [reqs EXCEPT ![r] =
                          [IdleReq EXCEPT !.pc = "resolved", !.message = message,
                                          !.session_id = session_id,
                                          !.sid = IF session_id = "" THEN Uuid(uuid_n + 1)
                                                  ELSE session_id]]
            /\ uuid_n' = IF session_id = "" THEN uuid_n + 1 ELSE uuid_n
            /\ UNCHANGED answered
    /\ UNCHANGED <<mode, agentVars, last_op, consoleVars, session_storage, lists,
                   chat_lock, req_log, uiVars>>

\* A "with" that does not wait for the lock to be free.
ApiAcquire_NoWait(r) ==
    /\ mode = "api"
    /\ reqs[r].pc = "resolved"
    /\ chat_lock' = r
    /\ reqs' = [reqs EXCEPT ![r].pc = "locked", ![r].no = Len(req_log) + 1]
    /\ req_log' = Append(req_log, reqs[r].sid)
    /\ UNCHANGED <<mode, agentVars, last_op, steps, consoleVars, session_storage, lists,
                   uuid_n, answered, uiVars>>

\* api.py:65  "with chat_lock:" entered; the request gets its number in the
\* order of entry
ApiAcquire(r) ==
    /\ mode = "api"
    /\ reqs[r].pc = "resolved"
    /\ chat_lock = 0
    /\ chat_lock' = r
    /\ reqs' = [reqs EXCEPT ![r].pc = "locked", ![r].no = Len(req_log) + 1]
    /\ req_log' = Append(req_log, reqs[r].sid)
    /\ UNCHANGED <<mode, agentVars, last_op, steps, consoleVars, session_storage, lists,
                   uuid_n, answered, uiVars>>

\* api.py:66-114  the body under the lock: the session is looked up, chat() is
\* called (the external call does `resp`) and the history is post-processed.
\* fault: "outer" an exception at 67 (outside the inner try), "before" an
\* exception inside chat() before the call, "inner" an exception in the inner
\* block after chat() returned.
ApiProcess(r, resp, fault) ==
    /\ mode = "api"
    /\ reqs[r].pc = "locked"
    /\ LET me == reqs[r]
           no == me.no
           got == get_or_create_session(session_storage, lists, me.sid)
           response == ChatResult(resp, fault = "before")
           serialized_history == Serialize(UpdatedHistory(got.lists[got.session]))
       IN /\ IF fault = "outer"
             THEN /\ reqs' = [reqs EXCEPT ![r] =
                                [me EXCEPT !.pc = "leaving", !.status = 500,
                                           !.response = <<"error detail">>,
                                           !.fault = fault, !.no = no]]
                  /\ UNCHANGED <<agentVars, session_storage, lists>>
             ELSE /\ chat(me.message, resp, fault = "before", me.sid, no)
                  /\ IF fault = "inner"
                     THEN /\ session_storage' = got.session_storage
                          /\ lists' = got.lists
                          /\ reqs' = [reqs EXCEPT ![r] =
                                        [me EXCEPT !.pc = "leaving", !.session = got.session,
                                                   !.status = InnerFailure(me.sid).status,
                                                   !.response = InnerFailure(me.sid).response,
                                                   !.resp = resp, !.fault = fault, !.no = no]]
                     ELSE /\ IF serialized_history # <<>>
                             THEN /\ lists' = Append(got.lists, serialized_history)
                                  /\ session_storage' =
                                       [got.session_storage EXCEPT ![me.sid] = Len(got.lists) + 1]
                             ELSE /\ lists' = got.lists
                                  /\ session_storage' = got.session_storage
                          /\ reqs' = [reqs EXCEPT ![r] =
                                        [me EXCEPT !.pc = "leaving", !.session = got.session,
                                                   !.status = 200, !.response = response,
                                                   !.resp = resp, !.fault = fault, !.no = no]]
    /\ UNCHANGED <<mode, last_op, steps, consoleVars, chat_lock, uuid_n, req_log, answered,
                   uiVars>>

\* A release that is skipped when the block is left by an exception.
ApiRelease_KeptOnFailure(r) ==
    /\ mode = "api"
    /\ reqs[r].pc = "leaving"
    /\ chat_lock' = IF reqs[r].status = 500 THEN chat_lock ELSE 0
    /\ answered' = [reqs[r] EXCEPT !.pc = "done"]
    /\ reqs' = [reqs EXCEPT ![r] = IdleReq]
    /\ UNCHANGED <<mode, agentVars, last_op, steps, consoleVars, session_storage, lists,
                   uuid_n, req_log, uiVars>>

\* api.py:65,99-116  the "with" block is left (the lock is released) and the
\* answer is sent
ApiRelease(r) ==
    /\ mode = "api"
    /\ reqs[r].pc = "leaving"
    /\ chat_lock' = 0
    /\ answered' = [reqs[r] EXCEPT !.pc = "done"]
    /\ reqs' = [reqs EXCEPT ![r] = IdleReq]
    /\ UNCHANGED <<mode, agentVars, last_op, steps, consoleVars, session_storage, lists,
                   uuid_n, req_log, uiVars>>

\* Session ids a request can carry: none (""), a client's own, or one the
\* service returned before.
SessionIds == {""} \cup ClientKeys \cup {Uuid(n) : n \in 1..uuid_n}

ApiRequest ==
    /\ mode = "api" /\ steps < MaxSteps
    /\ \E r \in Slots, message \in ApiMessages, session_id \in SessionIds, fails \in BOOLEAN :
           ApiReceive(r, message, session_id, fails, MaxSteps)

ApiEnter == \E r \in Slots : ApiAcquire(r)

ApiBody ==
    \E r \in Slots, resp \in ApiResponses, fault \in {"none", "inner", "outer"} :
        /\ reqs[r].pc = "locked"
        /\ (fault # "none" => resp = RespDict(TRUE, StrVal(<<"ok">>)))
        /\ ApiProcess(r, resp, fault)

ApiLeave == \E r \in Slots : ApiRelease(r)

\* ------------------------------------------------------------ browser page
MsgThinking == <<"Thinking...">>
\* app.py:207 (the warning sign before the text is left out)
MsgAgentFailed == <<"Agent failed to respond. Check logs.">>
MsgNoReply == <<"I didn't receive a response. Please try again.">>

\* What is typed in the text area.
UiInputs == { <<>>, <<" ", "\n">>, <<"h", "i">>, <<" ", "h", "i", "\n">> }

UiResponses ==
    { RespDict(TRUE, StrVal(<<"ok">>)),
      RespRaise(<<"boom">>) }

\* app.py:159  "if submit and user_input and user_input.strip()"
Accepted(submit, user_input) == submit /\ user_input # <<>> /\ Strip(user_input) # <<>>

\* app.py:178-184  the reply as a string
NormalizeReply(value) ==
    IF value.t = "none" THEN MsgNoReply ELSE value.s

\* An update that leaves the records as they are.
SetLastAssistant_Skipped(msgs, content) == msgs

\* app.py:190-194  the content of the last assistant record is replaced
SetLastAssistant(msgs, content) ==
    LET found == {i \in 1..Len(msgs) : msgs[i].role = "assistant"}
    IN IF found = {} THEN msgs
       ELSE LET last == CHOOSE i \in found : \A j \in found : j <= i
            IN [msgs EXCEPT ![last].content = content]

\* app.py:116-213  one run of the page script.  init_ok: the agent can be
\* built (116-128); the external call does `resp`; fault: "before" an
\* exception inside chat() before the call, "page_before" / "page_after" an
\* exception of the page's own block (171-199) before / after the chat call.
\* The time stamps of the records are left out.
UiStep(submit, user_input, init_ok, resp, fault, bound) ==
    /\ mode = "ui"
    /\ steps < bound
    /\ steps' = steps + 1
    /\ IF ~agent_ready /\ ~init_ok
       THEN /\ last_error' = TRUE
            /\ last_op' = Op("ui_init_failed", user_input, <<>>, RespNone, "none", <<>>)
            /\ UNCHANGED <<agentVars, messages, agent_ready>>
       ELSE /\ agent_ready' = TRUE
            /\ IF Accepted(submit, user_input)
               THEN LET text == Strip(user_input)
                        shown == messages \o << [role |-> "user", content |-> text],
                                                [role |-> "assistant", content |-> MsgThinking] >>
                        response == NormalizeReply(StrVal(ChatResult(resp, fault = "before")))
                    IN /\ last_op' = Op("ui_submit", user_input, text, resp, fault,
                                        IF fault = "page_before" THEN <<>> ELSE response)
                       /\ IF fault = "page_before"
                          THEN /\ messages' = SetLastAssistant(shown, MsgAgentFailed)
                               /\ last_error' = TRUE
                               /\ UNCHANGED agentVars
                          ELSE /\ chat(text, resp, fault = "before", "ui", steps + 1)
                               /\ IF fault = "page_after"
                                  THEN /\ messages' = SetLastAssistant(
                                                         SetLastAssistant(shown, response),
                                                         MsgAgentFailed)
                                       /\ last_error' = TRUE
                                  ELSE /\ messages' = SetLastAssistant(shown, response)
                                       /\ UNCHANGED last_error
               ELSE /\ last_op' = Op(IF submit THEN "ui_blank" ELSE "ui_render",
                                      user_input, <<>>, RespNone, "none", <<>>)
                    /\ UNCHANGED <<agentVars, messages, last_error>>
    /\ UNCHANGED <<mode, consoleVars, apiVars>>

UiRun ==
    /\ mode = "ui" /\ steps < MaxSteps
    /\ \E submit \in BOOLEAN, user_input \in UiInputs, init_ok \in BOOLEAN,
          resp \in UiResponses, fault \in {"none", "before", "page_before", "page_after"} :
           /\ (~Accepted(submit, user_input) \/ fault # "none" => resp = RespDict(TRUE, StrVal(<<"ok">>)))
           /\ (~Accepted(submit, user_input) => fault = "none")
           /\ UiStep(submit, user_input, init_ok, resp, fault, MaxSteps)

\* ----------------------------------------------------------- specification
InitState ==
    /\ chat_history = <<>>
    /\ hist_src = <<>>
    /\ appended_log = <<>>
    /\ last_call = NoCall
    /\ invoke_count = 0
    /\ chat_calls = 0
    /\ last_reply = <<>>
    /\ last_op = NoOp
    /\ steps = 0
    /\ console_pc = "running"
    /\ console_out = "banner"
    /\ session_storage = [k \in {} |-> 0]
    /\ lists = <<>>
    /\ reqs = [r \in Slots |-> IdleReq]
    /\ chat_lock = 0
    /\ uuid_n = 0
    /\ req_log = <<>>
    /\ answered = IdleReq
    /\ messages = <<>>
    /\ agent_ready = FALSE
    /\ last_error = FALSE

\* The process is the console (python agent.py), the HTTP service (api.py)
\* or the browser page (app.py).
Init == mode \in {"console", "api", "ui"} /\ InitState

Next ==
    \/ ConsoleEOF
    \/ ConsoleLine
    \/ ApiRequest
    \/ ApiEnter
    \/ ApiBody
    \/ ApiLeave
    \/ UiRun

Spec == Init /\ [][Next]_vars

\* ------------------------------------------------------------- a long run
\* Long runs pass the history cap: few inputs, many steps.
LongLines == { <<"h", "i">>, <<"y", "o">>, <<"c", "l", "e", "a", "r">> }
LongResponses == { RespDict(TRUE, StrVal(<<"ok">>)) }

LongConsoleLine ==
    /\ mode = "console" /\ steps < MaxLongSteps
    /\ \E raw \in LongLines, resp \in LongResponses :
           ConsoleStep(raw, resp, "none", MaxLongSteps)

\* Requests arrive one after the other, on one of two client keys.
LongApiRequest ==
    \E session_id \in {"k1", "k2"} :
        /\ \A r \in Slots : reqs[r].pc = "idle"
        /\ ApiReceive(1, <<"h", "i">>, session_id, FALSE, MaxLongSteps)

LongApiBody ==
    \E r \in Slots, resp \in LongResponses : ApiProcess(r, resp, "none")

InitLong == mode \in {"console", "api"} /\ InitState

NextLong ==
    \/ LongConsoleLine
    \/ LongApiRequest
    \/ ApiEnter
    \/ LongApiBody
    \/ ApiLeave

SpecLong == InitLong /\ [][NextLong]_vars

\* ------------------------------------------- the endpoint, statement by statement
\* The body of chat_endpoint under the lock, in the steps between which the
\* thread of another request can run.
\* Requests of a run of concurrent requests.
MaxLockSteps == 3

LockResponses ==
    { RespDict(TRUE, StrVal(<<"ok">>)),
      RespDict(TRUE, StrVal(Sentinel)),
      RespRaise(<<"boom">>) }

\* The positions of a request inside the "with chat_lock:" block.
InLock == {"locked", "looked", "invoked", "appending", "returned", "leaving"}

\* api.py:67  session = get_or_create_session(session_id); `fails` is an
\* exception raised here, outside the inner try (caught at 115: status 500)
ApiLookup(r, fails) ==
    /\ mode = "api"
    /\ reqs[r].pc = "locked"
    /\ LET me == reqs[r]
           got == get_or_create_session(session_storage, lists, me.sid)
       IN IF fails
          THEN /\ reqs' = [reqs EXCEPT ![r] =
                             [me EXCEPT !.pc = "leaving", !.status = 500,
                                        !.response = <<"error detail">>, !.fault = "outer"]]
               /\ UNCHANGED <<session_storage, lists>>
          ELSE /\ session_storage' = got.session_storage
               /\ lists' = got.lists
               /\ reqs' = [reqs EXCEPT ![r] = [me EXCEPT !.pc = "looked", !.session = got.session]]
    /\ UNCHANGED <<mode, agentVars, last_op, steps, consoleVars, chat_lock, uuid_n, req_log,
                   answered, uiVars>>

\* api.py:76, agent.py:187-228  chat() formats the stored history and makes
\* the external call, which does `resp`
ApiChatCall(r, resp) ==
    /\ mode = "api"
    /\ reqs[r].pc = "looked"
    /\ LET me == reqs[r]
           kept == KeptIndices(chat_history, 1)
       IN /\ last_call' = [input |-> me.message,
                           chat_history |-> FormatHistory(chat_history),
                           src |-> [i \in 1..Len(kept) |-> hist_src[kept[i]]],
                           key |-> me.sid, req |-> me.no, did |-> resp]
          /\ invoke_count' = invoke_count + 1
          /\ reqs' = [reqs EXCEPT ![r] = [me EXCEPT !.pc = "invoked", !.resp = resp]]
    /\ UNCHANGED <<mode, chat_history, hist_src, appended_log, chat_calls, last_reply,
                   last_op, steps, consoleVars, session_storage, lists, chat_lock, uuid_n,
                   req_log, answered, uiVars>>

\* agent.py:231-232  the guard and chat_history.append(("human", user_input))
ApiChatAppend(r) ==
    /\ mode = "api"
    /\ reqs[r].pc = "invoked"
    /\ LET me == reqs[r]
           output == ExtractOutput(me.resp)
       IN IF ShouldAppend(output)
          THEN /\ chat_history' = Append(chat_history, <<"human", me.message>>)
               /\ hist_src' = Append(hist_src, [key |-> me.sid, req |-> me.no])
               /\ appended_log' = Append(appended_log,
                                         [turn |-> <<"human", me.message>>,
                                          key |-> me.sid, req |-> me.no])
               /\ reqs' = [reqs EXCEPT ![r].pc = "appending"]
          ELSE /\ reqs' = [reqs EXCEPT ![r].pc = "appending"]
               /\ UNCHANGED <<chat_history, hist_src, appended_log>>
    /\ UNCHANGED <<mode, last_call, invoke_count, chat_calls, last_reply, last_op, steps,
                   consoleVars, session_storage, lists, chat_lock, uuid_n, req_log,
                   answered, uiVars>>

\* agent.py:233-239  chat_history.append(("assistant", output)), the
\* truncation and the return
ApiChatReturn(r) ==
    /\ mode = "api"
    /\ reqs[r].pc = "appending"
    /\ LET me == reqs[r]
           output == ExtractOutput(me.resp)
       IN /\ IF ShouldAppend(output)
             THEN /\ chat_history' = KeepLast(Append(chat_history, <<"assistant", output>>))
                  /\ hist_src' = KeepLast(Append(hist_src, [key |-> me.sid, req |-> me.no]))
                  /\ appended_log' = Append(appended_log,
                                            [turn |-> <<"assistant", output>>,
                                             key |-> me.sid, req |-> me.no])
             ELSE /\ chat_history' = KeepLast(chat_history)
                  /\ hist_src' = KeepLast(hist_src)
                  /\ UNCHANGED appended_log
          /\ chat_calls' = chat_calls + 1
          /\ last_reply' = ReturnValue(output)
          /\ reqs' = [reqs EXCEPT ![r] =
                        [me EXCEPT !.pc = "returned", !.response = ReturnValue(output)]]
    /\ UNCHANGED <<mode, last_call, invoke_count, last_op, steps, consoleVars,
                   session_storage, lists, chat_lock, uuid_n, req_log, answered, uiVars>>

\* api.py:78-114  the history is post-processed and the answer built; `fails`
\* is an exception raised in the inner block (caught at 104)
ApiStore(r, fails) ==
    /\ mode = "api"
    /\ reqs[r].pc = "returned"
    /\ LET me == reqs[r]
           serialized_history == Serialize(UpdatedHistory(lists[me.session]))
       IN IF fails
          THEN /\ reqs' = [reqs EXCEPT ![r] =
                             [me EXCEPT !.pc = "leaving",
                                        !.status = InnerFailure(me.sid).status,
                                        !.response = InnerFailure(me.sid).response,
                                        !.fault = "inner"]]
               /\ UNCHANGED <<session_storage, lists>>
          ELSE /\ IF serialized_history # <<>>
                  THEN /\ lists' = Append(lists, serialized_history)
                       /\ session_storage' = [session_storage EXCEPT ![me.sid] = Len(lists) + 1]
                  ELSE UNCHANGED <<session_storage, lists>>
               /\ reqs' = [reqs EXCEPT ![r] = [me EXCEPT !.pc = "leaving", !.status = 200]]
    /\ UNCHANGED <<mode, agentVars, last_op, steps, consoleVars, chat_lock, uuid_n, req_log,
                   answered, uiVars>>

LockRequest ==
    /\ mode = "api" /\ steps < MaxLockSteps
    /\ \E r \in Slots, session_id \in {"k1", "k2"}, fails \in BOOLEAN :
           ApiReceive(r, <<"h", "i">>, session_id, fails, MaxLockSteps)

LockLookup(r) == \E fails \in BOOLEAN : ApiLookup(r, fails)

LockChatCall(r) == \E resp \in LockResponses : ApiChatCall(r, resp)

LockStore(r) == \E fails \in BOOLEAN : ApiStore(r, fails)

InitLock == mode = "api" /\ InitState

NextLock ==
    \/ LockRequest
    \/ \E r \in Slots : ApiAcquire(r)
    \/ \E r \in Slots : LockLookup(r)
    \/ \E r \in Slots : LockChatCall(r)
    \/ \E r \in Slots : ApiChatAppend(r)
    \/ \E r \in Slots : ApiChatReturn(r)
    \/ \E r \in Slots : LockStore(r)
    \/ \E r \in Slots : ApiRelease(r)

SpecLock == InitLock /\ [][NextLock]_vars

\* Requests of a run in which every request that can take a step takes it.
MaxFairSteps == 3

FairRequest ==
    /\ mode = "api" /\ steps < MaxFairSteps
    /\ \E r \in Slots, fails \in BOOLEAN :
           ApiReceive(r, <<"h", "i">>, "k1", fails, MaxFairSteps)

\* The external call returns or raises.
FairChatCall(r) ==
    \E resp \in {RespDict(TRUE, StrVal(<<"ok">>)), RespRaise(<<"boom">>)} : ApiChatCall(r, resp)

NextFair ==
    \/ FairRequest
    \/ \E r \in Slots : ApiAcquire(r)
    \/ \E r \in Slots : LockLookup(r)
    \/ \E r \in Slots : FairChatCall(r)
    \/ \E r \in Slots : ApiChatAppend(r)
    \/ \E r \in Slots : ApiChatReturn(r)
    \/ \E r \in Slots : LockStore(r)
    \/ \E r \in Slots : ApiRelease(r)

\* Every request that can take a step takes it in the end: a thread that is
\* not blocked runs, the external call returns or raises, and the lock, once
\* free, is given to a request waiting for it.
LockFairness ==
    \A r \in Slots :
        /\ WF_vars(ApiAcquire(r))
        /\ WF_vars(LockLookup(r))
        /\ WF_vars(FairChatCall(r))
        /\ WF_vars(ApiChatAppend(r))
        /\ WF_vars(ApiChatReturn(r))
        /\ WF_vars(LockStore(r))
        /\ WF_vars(ApiRelease(r))

SpecLockFair == InitLock /\ [][NextFair]_vars /\ LockFairness

\* ------------------------------------------------- every shape of response
\* Chat calls of a run that tries every shape of response.
MaxLadderSteps == 2

\* Every shape of outcome agent.py:209-228 tells apart.
LadderResponses ==
    Responses \cup { RespDict(TRUE, OtherVal(FALSE, <<"0">>)),
                     RespBadStr(<<"bad">>) }

LadderConsoleLine ==
    /\ mode = "console" /\ steps < MaxLadderSteps
    /\ \E resp \in LadderResponses :
           ConsoleStep(<<"h", "i">>, resp, "none", MaxLadderSteps)

LadderUiRun ==
    /\ mode = "ui" /\ steps < MaxLadderSteps
    /\ \E resp \in LadderResponses :
           UiStep(TRUE, <<"h", "i">>, TRUE, resp, "none", MaxLadderSteps)

InitLadder == mode \in {"console", "ui"} /\ InitState

NextLadder ==
    \/ LadderConsoleLine
    \/ LadderUiRun

SpecLadder == InitLadder /\ [][NextLadder]_vars

\* ------------------------------------------------------------------ claims
Min(a, b) == IF a < b THEN a ELSE b

\* The last Min(Len(full), MaxHistory) elements of full.
MostRecent(full) ==
    LET m == Min(Len(full), MaxHistory)
    IN [i \in 1..m |-> full[Len(full) - m + i]]

\* C1: the stored history is exactly the most recent min(N, 20) of the N
\* turns appended since the last clear, in their order, so it never holds
\* more than 20 turns and the turns dropped are the oldest.
C1_KeepsMostRecent ==
    /\ Len(chat_history) <= MaxHistory
    /\ chat_history = MostRecent([i \in 1..Len(appended_log) |-> appended_log[i].turn])
    /\ hist_src = MostRecent([i \in 1..Len(appended_log) |->
                                [key |-> appended_log[i].key, req |-> appended_log[i].req]])

\* More than 20 turns were appended and two different messages are stored.
C1_Witness ==
    /\ Len(appended_log) > MaxHistory
    /\ Len(chat_history) = MaxHistory
    /\ \E i, j \in 1..Len(chat_history) : chat_history[i][1] = "human"
                                          /\ chat_history[j][1] = "human"
                                          /\ chat_history[i][2] # chat_history[j][2]

\* C2: the history replayed to the external call for a request with session
\* key k holds only turns recorded by requests with the same key k.
C2_SessionIsolation ==
    mode = "api" =>
        \A i \in 1..Len(last_call.src) : last_call.src[i].key = last_call.key

\* C3: the second request on a key k, made after a first request on k that
\* recorded its exchange, is replayed the user turn and the assistant turn
\* of that first request, and the session id answered is k.
C3_SecondRequestSeesFirst ==
    /\ (mode = "api" /\ invoke_count > 0) =>
          LET k == last_call.key
              n == last_call.req
              mine == {m \in 1..(n - 1) : req_log[m] = k}
          IN \A m \in mine :
                (mine = {m} /\ \E i \in 1..Len(appended_log) : appended_log[i].req = m)
                => \E i, j \in 1..Len(last_call.src) :
                      /\ i < j
                      /\ last_call.src[i].req = m /\ last_call.chat_history[i].type = "human"
                      /\ last_call.src[j].req = m /\ last_call.chat_history[j].type = "ai"
    /\ \A r \in Slots :
          (reqs[r].pc = "leaving" /\ reqs[r].session_id # "") => reqs[r].sid = reqs[r].session_id

\* C4: when a request with key k is answered with the handler's reply, the
\* list stored for k ends with the user turn of the request's message and
\* the assistant turn of the reply.
C4_StoreEndsWithExchange ==
    \A r \in Slots :
        (mode = "api" /\ reqs[r].pc = "leaving" /\ reqs[r].fault = "none") =>
            LET stored == lists[session_storage[reqs[r].sid]]
            IN /\ Len(stored) >= 2
               /\ stored[Len(stored) - 1] = <<"user", reqs[r].message>>
               /\ stored[Len(stored)] = <<"assistant", reqs[r].response>>

\* A chat() call that made the external call and returned, and the call raised.
RaisedStep ==
    /\ chat_calls' = chat_calls + 1
    /\ invoke_count' = invoke_count + 1
    /\ last_call'.did.kind = "raise"

\* C5 as stated: if the external call raises, chat() still returns a
\* non-empty fallback text and the stored history is what it was before.
C5_RaiseLeavesHistory ==
    [][RaisedStep => last_reply' # <<>> /\ chat_history' = chat_history]_vars

\* C5 amended: if the external call raises, chat() returns the non-empty
\* fallback text built from the error, and the history gains the user turn
\* followed by an assistant turn holding that text (then keeps its last 20).
C5_RaiseRecordsFallback ==
    [][RaisedStep =>
         /\ last_reply' # <<>>
         /\ last_reply' = <<"I encountered an error: ">> \o last_call'.did.msg
                            \o <<". Could you please rephrase your question?">>
         /\ chat_history' = MostRecent(chat_history \o << <<"human", last_call'.input>>,
                                                         <<"assistant", last_reply'>> >>)]_vars

\* The external call raised on the second chat and its fallback text is stored
\* after the first exchange.
C5_Witness ==
    /\ invoke_count = 2 /\ chat_calls = 2
    /\ last_call.did.kind = "raise"
    /\ Len(chat_history) = 4
    /\ chat_history[4] = <<"assistant", last_reply>>
    /\ chat_history[3] = <<"human", last_call.input>>

\* The requests whose answer is decided: those leaving the lock and the one
\* answered last.
Decided == {reqs[r] : r \in {x \in Slots : reqs[x].pc = "leaving"}}
           \cup (IF answered.pc = "done" THEN {answered} ELSE {})

\* C6: a request is answered 200 with a non-empty response and the resolved
\* session id whatever the external call does and whatever fails inside the
\* inner block; 500 is answered only for a failure outside the inner block.
C6_NeverRaisesPastBoundary ==
    /\ \A q \in Decided :
          /\ q.status \in {200, 500}
          /\ q.status = 500 => q.fault \in {"resolve", "outer"}
          /\ q.fault \notin {"resolve", "outer"} =>
                /\ q.status = 200
                /\ q.response # <<>>
                /\ IF q.session_id # "" THEN q.sid = q.session_id
                   ELSE \E n \in 1..uuid_n : q.sid = Uuid(n)
    /\ \A resp \in Responses, fault \in BOOLEAN : ChatResult(resp, fault) # <<>>

\* A request whose post-processing failed was answered 200, and so was one
\* whose external call raised.
C6_Witness ==
    /\ answered.pc = "done" /\ answered.fault = "inner" /\ answered.status = 200
    /\ \E r \in Slots : /\ reqs[r].pc = "leaving" /\ reqs[r].resp.kind = "raise"
                        /\ reqs[r].status = 200

\* C7: the first lookup of a key stores a new empty list, every later lookup
\* of the key returns that same list object, and no lookup changes the entry
\* of another key.
C7_IdentityPreserving ==
    [][/\ \A k \in DOMAIN session_storage :
             k \in DOMAIN session_storage' /\ session_storage'[k] = session_storage[k]
       /\ \A r \in Slots :
             (reqs[r].pc = "locked" /\ reqs'[r].pc = "leaving" /\ reqs'[r].fault # "outer") =>
                LET k == reqs[r].sid
                IN /\ reqs'[r].session = session_storage'[k]
                   /\ DOMAIN session_storage' = DOMAIN session_storage \cup {k}
                   /\ k \in DOMAIN session_storage => reqs'[r].session = session_storage[k]
                   /\ k \notin DOMAIN session_storage =>
                         /\ lists'[session_storage'[k]] = <<>>
                         /\ \A j \in DOMAIN session_storage :
                               session_storage[j] # session_storage'[k]]_vars

\* The third request looked up the key of the first, with another key looked
\* up in between, and got the list made for the first.
C7_Witness ==
    \E r \in Slots :
        /\ reqs[r].pc = "leaving" /\ reqs[r].no = 3 /\ reqs[r].fault = "none"
        /\ Len(req_log) = 3
        /\ req_log[1] = req_log[3] /\ req_log[2] # req_log[1]
        /\ reqs[r].session = 1
        /\ Len(lists) = 2

AllWhitespace(raw) == \A i \in 1..Len(raw) : raw[i] \in Whitespace

\* C8: an empty or whitespace-only input at the console or in the page does
\* not invoke the external call and adds no turn and no message record.
C8_BlankInputIgnored ==
    [][(mode \in {"console", "ui"} /\ steps' = steps + 1 /\ AllWhitespace(last_op'.raw)) =>
          /\ invoke_count' = invoke_count
          /\ chat_calls' = chat_calls
          /\ chat_history' = chat_history
          /\ messages' = messages]_vars

\* A whitespace-only line was read at the console after an exchange was stored.
C8_Witness ==
    /\ mode = "console"
    /\ last_op.op = "blank" /\ last_op.raw = <<" ", "\t">>
    /\ Len(chat_history) = 2
    /\ invoke_count = 1

\* The text between the first and the last non-whitespace character of raw.
Core(raw) ==
    LET solid == {i \in 1..Len(raw) : raw[i] \notin Whitespace}
    IN IF solid = {} THEN <<>>
       ELSE SubSeq(raw, CHOOSE i \in solid : \A j \in solid : i <= j,
                        CHOOSE i \in solid : \A j \in solid : j <= i)

\* b is a or the lower-case letter of a.
SameLetter(a, b) == a = b \/ \E i \in 1..Len(UpperChars) : UpperChars[i] = a /\ LowerChars[i] = b

\* text is word up to the case of its letters.
Matches(text, word) ==
    Len(text) = Len(word) /\ \A i \in 1..Len(word) : SameLetter(text[i], word[i])

\* C9: a non-empty console line does exactly one thing, chosen without regard
\* to case: quit/exit/q end the loop, history only prints, clear empties the
\* history, anything else goes to the chat handler; a command never invokes
\* the external call nor appends, and a chat on a cleared history is replayed
\* an empty history.
C9_ConsoleDispatch ==
    [][(mode = "console" /\ steps' = steps + 1) =>
          LET core == Core(last_op'.raw)
              isQuit == \E w \in QuitWords : Matches(core, w)
              isHistory == Matches(core, HistoryWord)
              isClear == Matches(core, ClearWord)
              isChat == core # <<>> /\ ~isQuit /\ ~isHistory /\ ~isClear
          IN /\ isQuit => console_pc' = "terminated" /\ chat_history' = chat_history
             /\ isHistory => /\ console_out' = "history" /\ console_pc' = "running"
                             /\ chat_history' = chat_history
             /\ isClear => chat_history' = <<>> /\ console_pc' = "running"
             /\ (isQuit \/ isHistory \/ isClear) =>
                   /\ invoke_count' = invoke_count /\ chat_calls' = chat_calls
                   /\ Len(chat_history') <= Len(chat_history)
             /\ isChat => /\ last_op'.op = "chat" /\ last_op'.text = core
                          /\ console_pc' = "running"
                          /\ last_op'.fault # "before" =>
                                /\ invoke_count' = invoke_count + 1
                                /\ last_call'.input = core
                                /\ appended_log = <<>> => last_call'.chat_history = <<>>
             /\ ~isChat => last_op'.op # "chat"]_vars

\* An upper-case " CLEAR" emptied a history that held an exchange.
C9_Witness ==
    /\ mode = "console" /\ steps = 2
    /\ last_op.op = "clear" /\ last_op.raw = <<" ", "C", "L", "E", "A", "R">>
    /\ invoke_count = 1 /\ chat_calls = 1 /\ last_reply = <<"ok">>
    /\ chat_history = <<>>

\* C10: chat() appends only when its reply is a non-empty text other than
\* the sentinel, and then appends the user turn and the assistant turn
\* together; otherwise the history is left as it was.
C10_AppendGuard ==
    [][chat_calls' = chat_calls + 1 =>
          /\ \/ chat_history' = chat_history /\ appended_log' = appended_log
             \/ /\ last_reply' # <<>> /\ last_reply' # Sentinel
                /\ Len(appended_log') = Len(appended_log) + 2
                /\ chat_history' = MostRecent(chat_history \o
                                      << <<"human", last_call'.input>>,
                                         <<"assistant", last_reply'>> >>)
          /\ (last_reply' = <<>> \/ last_reply' = Sentinel) =>
                chat_history' = chat_history /\ appended_log' = appended_log]_vars

\* The external call answered with the sentinel on the second chat and the
\* history still holds the first exchange only.
C10_Witness ==
    /\ chat_calls = 2 /\ invoke_count = 2
    /\ last_reply = Sentinel
    /\ Len(chat_history) = 2
    /\ chat_history[2] = <<"assistant", <<"ok">>>>

\* The latest step was a chat that made the external call.
LadderStep == last_op.op \in {"chat", "ui_submit"} /\ last_op.fault = "none"

\* C11 as stated, for the raise: the text answered when the external call
\* raises is fixed, so two raises in a row are answered with the same text.
C11_RaiseTextIsFixed ==
    [][(chat_calls > 0 /\ last_call.did.kind = "raise" /\ RaisedStep) =>
          last_reply' = last_reply]_vars

\* C11 amended: every outcome of the external call is answered with a
\* non-empty text: a raise with the fixed wording "I encountered an error:
\* <error>. Could you please rephrase your question?" around the error's
\* message, a mapping whose text field is missing or empty with the fixed
\* "rephrase" text, a mapping with a non-empty string field with that field
\* unchanged, a non-string result with its string form and, if that is empty
\* or not a string, with a fixed message.
C11_FallbackLadder ==
    LadderStep =>
        LET resp == last_op.resp
            reply == last_op.reply
            trouble == <<"I'm having trouble understanding. Could you rephrase your question?">>
        IN /\ reply # <<>>
           /\ last_reply = reply
           /\ resp.kind \in {"raise", "badstr"} =>
                 reply = <<"I encountered an error: ">> \o resp.msg
                           \o <<". Could you please rephrase your question?">>
           /\ resp.kind = "none" =>
                 reply = <<"No response was generated. Please try again.">>
           /\ (resp.kind = "dict" /\ (~resp.has_output \/ ~resp.output.truthy)) =>
                 reply = <<"I didn't get a proper response. Could you rephrase your question?">>
           /\ (resp.kind = "dict" /\ resp.has_output /\ resp.output.t = "str"
                  /\ resp.output.s # <<>>) => reply = resp.output.s
           /\ (resp.kind = "dict" /\ resp.has_output /\ resp.output.truthy
                  /\ resp.output.t # "str") => reply = trouble
           /\ resp.kind = "object" =>
                 LET text == IF resp.has_output /\ resp.output.t # "none"
                             THEN resp.output.s ELSE resp.str
                 IN reply = IF text # <<>> THEN text ELSE trouble
           /\ mode = "ui" => messages[Len(messages)] = [role |-> "assistant", content |-> reply]

\* A raise with the message "boom" was answered with the wording around it,
\* after a raise with an empty message was answered with another text.
C11_Witness ==
    /\ LadderStep /\ steps = 2 /\ chat_calls = 2
    /\ last_op.resp = RespRaise(<<"boom">>)
    /\ last_reply = <<"I encountered an error: ", "boom",
                      ". Could you please rephrase your question?">>
    /\ chat_history[2] = <<"assistant", <<"I encountered an error: ",
                                          ". Could you please rephrase your question?">> >>

\* C12: under any interleaving of concurrent requests at most one request is
\* inside the lock, from the session lookup to the end of the history
\* mutation, so the user turn of a request is directly followed by the
\* assistant turn of the same request, and the turns are stored in the order
\* in which their requests entered the lock, those of one session included.
C12_Serialized ==
    /\ \A r, q \in Slots :
          (reqs[r].pc \notin {"idle", "resolved"} /\ reqs[q].pc \notin {"idle", "resolved"})
          => r = q
    /\ \A r \in Slots : reqs[r].pc \notin {"idle", "resolved"} => chat_lock = r
    /\ \A i \in 1..Len(appended_log) :
          /\ req_log[appended_log[i].req] = appended_log[i].key
          /\ appended_log[i].turn[1] = "human" =>
                IF i < Len(appended_log)
                THEN /\ appended_log[i + 1].turn[1] = "assistant"
                     /\ appended_log[i + 1].req = appended_log[i].req
                ELSE \E r \in Slots : /\ reqs[r].pc = "appending"
                                      /\ reqs[r].no = appended_log[i].req
          /\ appended_log[i].turn[1] = "assistant" =>
                /\ i > 1
                /\ appended_log[i - 1].turn[1] = "human"
                /\ appended_log[i - 1].req = appended_log[i].req
    /\ \A i, j \in 1..Len(appended_log) :
          i < j => appended_log[i].req <= appended_log[j].req
    /\ chat_history = [i \in 1..Len(appended_log) |-> appended_log[i].turn]

\* A request has stored its user turn and not yet its assistant turn, after
\* the exchange of a request on another key, while a third request waits
\* for the lock.
C12_Witness ==
    \E r, q \in Slots :
        /\ reqs[r].pc = "appending" /\ chat_lock = r
        /\ reqs[q].pc = "resolved"
        /\ Len(appended_log) = 3
        /\ appended_log[3].turn[1] = "human"
        /\ appended_log[3].key # appended_log[1].key

\* C13: the lock is released on every way out of the "with" block (normal
\* answer, swallowed inner failure, failure answered 500), so it is held
\* exactly while a request is inside the block and is free when no request
\* is in progress; and, every external call returning or raising, a request
\* waiting for the lock gets it in the end and a request holding it is
\* answered in the end.
C13_LockReleased ==
    /\ [](chat_lock = 0 <=> \A r \in Slots : reqs[r].pc \in {"idle", "resolved"})
    /\ []((\A r \in Slots : reqs[r].pc = "idle") => chat_lock = 0)
    /\ [][\A r \in Slots :
             (reqs[r].pc = "leaving" /\ reqs'[r].pc = "idle") =>
                /\ chat_lock = r /\ chat_lock' = 0
                /\ answered' = [reqs[r] EXCEPT !.pc = "done"]]_vars
    /\ \A r \in Slots : (reqs[r].pc = "resolved") ~> (chat_lock = r)
    /\ \A r \in Slots : (chat_lock = r) ~> (reqs[r].pc = "idle" /\ chat_lock # r)

\* A request waits for the lock while the request holding it leaves the block
\* by an exception (status 500), after a request whose inner block failed
\* was answered.
C13_Witness ==
    \E r, q \in Slots :
        /\ reqs[r].pc = "resolved"
        /\ reqs[q].pc = "leaving" /\ reqs[q].status = 500 /\ reqs[q].fault = "outer"
        /\ chat_lock = q
        /\ answered.pc = "done" /\ answered.fault = "inner" /\ answered.status = 200

\* C14: after any sequence of chat calls and clear commands the stored
\* history has even length and alternates roles starting with a user turn,
\* every user turn being directly followed by the assistant turn of the same
\* request, also once the truncation to 20 has dropped turns.
C14_Alternates ==
    /\ Len(chat_history) % 2 = 0
    /\ Len(hist_src) = Len(chat_history)
    /\ \A i \in 1..Len(chat_history) :
          /\ chat_history[i][1] = IF i % 2 = 1 THEN "human" ELSE "assistant"
          /\ i % 2 = 1 => hist_src[i + 1] = hist_src[i]
          /\ (i % 2 = 0 /\ i < Len(chat_history)) => hist_src[i + 1] # hist_src[i]

\* At the console a clear and eleven chats were done: the first exchange was
\* dropped whole and the history starts with the user turn of the second.
C14_Witness ==
    /\ mode = "console" /\ steps = 12
    /\ Len(appended_log) = 22
    /\ Len(chat_history) = 20
    /\ chat_history[1] = appended_log[3].turn
    /\ hist_src[1].req = appended_log[3].req
    /\ hist_src[1].req # appended_log[1].req

\* C15: in the page, a submit of a non-blank text adds exactly one user
\* record (the text without its outer white space) followed by one assistant
\* record, and leaves the earlier records as they were; when the run ends
\* the assistant record does not hold the placeholder "Thinking..." but the
\* reply of the agent, or the failure text when the page's block failed (the
\* agent could not be set up or called); any other run adds no record.
C15_UiRecords ==
    [][(mode = "ui" /\ steps' = steps + 1) =>
          LET n == Len(messages)
              pressed == last_op'.op \in {"ui_submit", "ui_blank"}
          IN IF pressed /\ ~AllWhitespace(last_op'.raw)
             THEN /\ Len(messages') = n + 2
                  /\ \A i \in 1..n : messages'[i] = messages[i]
                  /\ messages'[n + 1] = [role |-> "user", content |-> Core(last_op'.raw)]
                  /\ messages'[n + 2].role = "assistant"
                  /\ messages'[n + 2].content # <<"Thinking...">>
                  /\ messages'[n + 2].content # <<>>
                  /\ \/ /\ last_op'.fault \in {"none", "before"}
                        /\ chat_calls' = chat_calls + 1
                        /\ messages'[n + 2].content = last_reply'
                     \/ /\ last_op'.fault \in {"page_before", "page_after"}
                        /\ last_error'
                        /\ messages'[n + 2].content = <<"Agent failed to respond. Check logs.">>
             ELSE messages' = messages]_vars

\* After an exchange answered by the agent, a second submit whose agent could
\* not be called left the failure text in its assistant record.
C15_Witness ==
    /\ mode = "ui" /\ last_op.op = "ui_submit" /\ last_op.fault = "page_before"
    /\ last_op.raw = <<" ", "h", "i", "\n">>
    /\ Len(messages) = 4
    /\ messages[1] = [role |-> "user", content |-> <<"h", "i">>]
    /\ messages[2] = [role |-> "assistant", content |-> <<"ok">>]
    /\ messages[3] = [role |-> "user", content |-> <<"h", "i">>]
    /\ messages[4] = [role |-> "assistant", content |-> <<"Agent failed to respond. Check logs.">>]
    /\ last_error

====
